---------------------------- MODULE Spec2Model ----------------------------
(***************************************************************************)
(* A model of the sentiment feature pipeline                               *)
(* (sentiment_features_large_data.py) and of the minimal Keras harness     *)
(* (testKerasFunctionalMinimal.py).                                        *)
(*                                                                         *)
(* Python strings are sequences of one-character strings, so that slicing, *)
(* splitting and integer parsing are computed and not assumed.  Python     *)
(* values whose type matters for == carry a type tag (PyStr, PyInt).       *)
(***************************************************************************)
EXTENDS Integers, Sequences, FiniteSets, TLC

(***************************************************************************)
(* Bounds of the model.                                                    *)
(***************************************************************************)
MaxFileLines == 3       \* lines in a samples file
MaxLimit == 2           \* largest value of the line limit max_lines
MaxEvents == 4          \* calls / removals in a lexicon-cache history
MaxDim == 2             \* largest image width / height
MaxSamples == 2         \* largest number of images in a dataset

(***************************************************************************)
(* Characters and Python string primitives.                                *)
(***************************************************************************)
Q == "\""
NL == "\n"
SEP == <<Q, ",", Q>>

Digits == {"0", "1", "2", "3", "4", "5", "6", "7", "8", "9"}

DigitVal(c) ==
    CASE c = "0" -> 0 [] c = "1" -> 1 [] c = "2" -> 2 [] c = "3" -> 3
      [] c = "4" -> 4 [] c = "5" -> 5 [] c = "6" -> 6 [] c = "7" -> 7
      [] c = "8" -> 8 [] c = "9" -> 9

Whitespace == {" ", NL}

\* line[1:-1]
Slice1m1(line) == IF Len(line) < 2 THEN <<>> ELSE SubSeq(line, 2, Len(line) - 1)

StartsWithAt(s, sep, i) ==
    /\ i + Len(sep) - 1 <= Len(s)
    /\ s[i] = sep[1]
    /\ SubSeq(s, i, i + Len(sep) - 1) = sep

\* the first place at or after i where sep starts, 0 when there is none
RECURSIVE Find(_, _, _)
Find(s, sep, i) ==
    IF i > Len(s) THEN 0
    ELSE IF StartsWithAt(s, sep, i) THEN i
    ELSE Find(s, sep, i + 1)

RECURSIVE SplitFrom(_, _, _)
SplitFrom(s, sep, i) ==
    LET j == Find(s, sep, i)
    IN  IF j = 0 THEN <<SubSeq(s, i, Len(s))>>
        ELSE <<SubSeq(s, i, j - 1)>> \o SplitFrom(s, sep, j + Len(sep))

\* str.split(sep)
split(s, sep) == SplitFrom(s, sep, 1)

RECURSIVE LStrip(_)
LStrip(s) == IF s # <<>> /\ Head(s) \in Whitespace THEN LStrip(Tail(s)) ELSE s

RECURSIVE RStrip(_)
RStrip(s) ==
    IF s # <<>> /\ s[Len(s)] \in Whitespace THEN RStrip(SubSeq(s, 1, Len(s) - 1)) ELSE s

RECURSIVE DigitsValue(_, _)
DigitsValue(s, acc) ==
    IF s = <<>> THEN acc ELSE DigitsValue(Tail(s), 10 * acc + DigitVal(Head(s)))

\* int(s): surrounding whitespace and one sign are allowed, then one or more
\* digits; anything else raises ValueError.
int(s) ==
    LET t == RStrip(LStrip(s))
        signed == t # <<>> /\ Head(t) \in {"+", "-"}
        d == IF signed THEN Tail(t) ELSE t
    IN  IF d # <<>> /\ \A k \in 1..Len(d) : d[k] \in Digits
        THEN [exc |-> "none",
              v |-> IF signed /\ Head(t) = "-" THEN 0 - DigitsValue(d, 0)
                    ELSE DigitsValue(d, 0)]
        ELSE [exc |-> "ValueError", v |-> 0]

(***************************************************************************)
(* Python values compared with ==: a str never equals an int (IntEnum).    *)
(***************************************************************************)
PyStr(s) == [t |-> "str", v |-> s]
PyInt(n) == [t |-> "int", v |-> n]
PyEq(a, b) == a.t = b.t /\ a.v = b.v

(***************************************************************************)
(* class Polarity(IntEnum)                                                 *)
(***************************************************************************)
NEGATIVE == 0
NEUTRAL == 2
POSITIVE == 4
PolarityValues == {NEGATIVE, NEUTRAL, POSITIVE}

\* Polarity(v): the enum lookup raises ValueError for a value that is no member
PolarityLookup(v) ==
    IF v \in PolarityValues THEN [exc |-> "none", v |-> v]
    ELSE [exc |-> "ValueError", v |-> v]

\* a faulty variant: the membership test of line 46 lets NEUTRAL through
PolarityAcceptedNeutralToo(p) == p \in {POSITIVE, NEGATIVE, NEUTRAL}

\* Polarity(polarity_value) in {Polarity.POSITIVE, Polarity.NEGATIVE}
PolarityAccepted(p) == p \in {POSITIVE, NEGATIVE}

column_names_ == <<"polarity", "id", "datetime", "query", "user", "text">>

\* a faulty variant: a record is built from whatever fields there are, padded with ""
SeriesPadded(record_data) ==
    [exc |-> "none",
     rec |-> [k \in 1..Len(column_names_) |->
                 IF k <= Len(record_data) THEN record_data[k] ELSE <<>>]]

\* Series(record_data, index=record_index): the values must be as many as the
\* index labels, or the constructor raises ValueError
Series(record_data) ==
    IF Len(record_data) = Len(column_names_)
    THEN [exc |-> "none", rec |-> record_data]
    ELSE [exc |-> "ValueError", rec |-> <<>>]

(***************************************************************************)
(* create_sentiment_featuresets: process_sample and lemmatizer.            *)
(***************************************************************************)
Lower(c) == CASE c = "A" -> "a" [] c = "B" -> "b" [] c = "S" -> "s" [] OTHER -> c

RECURSIVE Tokens(_, _)
Tokens(text, cur) ==
    LET flush == IF cur = <<>> THEN <<>> ELSE <<cur>>
    IN  IF text = <<>> THEN flush
        ELSE LET c == Lower(Head(text))
             IN  IF c \in Whitespace THEN flush \o Tokens(Tail(text), <<>>)
                 ELSE IF c \in {Q, ","} THEN flush \o <<<<c>>>> \o Tokens(Tail(text), <<>>)
                 ELSE Tokens(Tail(text), Append(cur, c))

\* process_sample(text): the lower-cased text cut into word tokens;
\* punctuation is a token of its own
process_sample(text) == Tokens(text, <<>>)

\* lemmatizer.lemmatize(word): a plural loses its final s
lemmatize(word) ==
    IF Len(word) > 1 /\ word[Len(word)] = "s" THEN SubSeq(word, 1, Len(word) - 1)
    ELSE word

(***************************************************************************)
(* process_line                                                            *)
(***************************************************************************)
zerosOneMore(n) == [i \in 1..(n + 1) |-> 0]

zeros(n) == [i \in 1..n |-> 0]

\* word in lexicon
In(word, lexicon) == \E i \in 1..Len(lexicon) : lexicon[i] = word

\* lexicon.index(word): the first position of word
index(word, lexicon) ==
    CHOOSE i \in 1..Len(lexicon) :
        lexicon[i] = word /\ \A j \in 1..(i - 1) : lexicon[j] # word

\* a faulty variant: presence instead of count (features[i] = 1)
RECURSIVE vectorizePresence(_, _, _)
vectorizePresence(words, lexicon, features) ==
    IF words = <<>> THEN features
    ELSE vectorizePresence(Tail(words), lexicon,
            IF In(Head(words), lexicon)
            THEN [features EXCEPT ![index(Head(words), lexicon)] = 1]
            ELSE features)

\* for word in words: if word in lexicon: features[lexicon.index(word)] += 1
RECURSIVE vectorize(_, _, _)
vectorize(words, lexicon, features) ==
    IF words = <<>> THEN features
    ELSE vectorize(Tail(words), lexicon,
            IF In(Head(words), lexicon)
            THEN [features EXCEPT ![index(Head(words), lexicon)] = @ + 1]
            ELSE features)

Raised(e) == [exc |-> e, features |-> <<>>, label |-> <<>>, words |-> <<>>]

process_line(line, lexicon) ==
    LET record_data == split(Slice1m1(line), SEP)
        record == Series(record_data)
    IN  IF record.exc # "none" THEN Raised(record.exc)
        ELSE
        LET polarity == record.rec[1]
            text == record.rec[6]
            polarity_value == int(polarity)
        IN  IF polarity_value.exc # "none" THEN Raised(polarity_value.exc)
            ELSE IF PolarityLookup(polarity_value.v).exc # "none"
                 THEN Raised(PolarityLookup(polarity_value.v).exc)
            ELSE IF ~PolarityAccepted(polarity_value.v) THEN Raised("ValueError")
            ELSE
            LET sample == process_sample(text)
                words == [k \in 1..Len(sample) |-> lemmatize(sample[k])]
                features == vectorize(words, lexicon, zeros(Len(lexicon)))
                label == IF PyEq(PyStr(polarity), PyInt(POSITIVE))
                         THEN <<1, 0>> ELSE <<0, 1>>
            IN  [exc |-> "none", features |-> features, label |-> label,
                 words |-> words]

(***************************************************************************)
(* Input lines.                                                            *)
(***************************************************************************)
RECURSIVE Join(_, _)
Join(fields, sep) ==
    IF Len(fields) = 0 THEN <<>>
    ELSE IF Len(fields) = 1 THEN fields[1]
    ELSE fields[1] \o sep \o Join(Tail(fields), sep)

\* a CSV row as the training files hold it: every field quoted, a line break
Row(fields) == <<Q>> \o Join(fields, SEP) \o <<Q, NL>>

Record(polarity, text) == Row(<<polarity, <<"7">>, <<"d">>, <<"q">>, <<"u">>, text>>)

PolarityFields ==
    {<<"0">>, <<"4">>, <<"2">>, <<"3">>, <<"x">>, <<>>, <<" ", "4">>, <<"-", "4">>,
     <<"4", "0">>}

Texts ==
    {<<"a">>, <<"a", " ", "b", "s">>, <<"B", " ", "b", " ", "c">>,
     <<"a", "s", " ", "a", " ", "b">>, <<>>}

MalformedLines ==
    {<<NL>>,
     Row(<<<<"4">>, <<"a">>>>),
     Row(<<<<"4">>, <<"7">>, <<"d">>, <<"q">>, <<"u">>, <<"a">>, <<"b">>>>),
     <<"4", ",", "7", ",", "d", ",", "q", ",", "u", ",", "a", NL>>}

Lines == {Record(p, t) : p \in PolarityFields, t \in Texts} \cup MalformedLines

A == <<"a">>
B == <<"b">>
C == <<"c">>

Lexicons == {<<>>, <<A>>, <<A, B>>, <<B, A, C>>, <<A, B, A>>}

Distinct(lexicon) ==
    \A i, j \in 1..Len(lexicon) : lexicon[i] = lexicon[j] => i = j

(***************************************************************************)
(* State.                                                                  *)
(*   process_line alone:   line, lex, res, pcL                             *)
(*   the three design-matrix variants: variant, mfile, mlex, max_lines,    *)
(*       pc, pos, design_matrix, outfile0, outzipfile, n_lines_written,    *)
(*       yielded, result, exc, accepted                                    *)
(*   load_or_create_lexicon: train, cache, events                          *)
(*   run() of the Keras harness: pcK, x_train, x_test, input_shape,        *)
(*       fit_x, evaluate_x                                                 *)
(***************************************************************************)
VARIABLES line, lex, res, pcL,
          variant, mfile, mlex, max_lines, pc, pos, design_matrix, outfile0,
          outzipfile, n_lines_written, yielded, result, exc, accepted,
          train, cache, events,
          pcK, x_train, x_test, input_shape, fit_x, evaluate_x

varsL == <<line, lex, res, pcL>>
varsM == <<variant, mfile, mlex, max_lines, pc, pos, design_matrix, outfile0,
           outzipfile, n_lines_written, yielded, result, exc, accepted>>
varsX == <<train, cache, events>>
varsK == <<pcK, x_train, x_test, input_shape, fit_x, evaluate_x>>
vars == <<varsL, varsM, varsX, varsK>>

\* a file of lines, and the absent file
File(ls) == [exists |-> TRUE, lines |-> ls]
NoFile == [exists |-> FALSE, lines |-> <<>>]

IdleL ==
    /\ line = <<>>
    /\ lex = <<>>
    /\ res = Raised("none")
    /\ pcL = "idle"

IdleM ==
    /\ variant = "none"
    /\ mfile = NoFile
    /\ mlex = <<>>
    /\ max_lines = 1
    /\ pc = "idle"
    /\ pos = 1
    /\ design_matrix = <<>>
    /\ outfile0 = <<>>
    /\ outzipfile = <<>>
    /\ n_lines_written = 0
    /\ yielded = <<>>
    /\ result = <<>>
    /\ exc = "none"
    /\ accepted = <<>>

IdleX ==
    /\ train = <<>>
    /\ cache = <<>>
    /\ events = <<>>

IdleK ==
    /\ pcK = "idle"
    /\ x_train = <<>>
    /\ x_test = <<>>
    /\ input_shape = <<>>
    /\ fit_x = <<>>
    /\ evaluate_x = <<>>

(***************************************************************************)
(* process_line applied to one line.                                       *)
(***************************************************************************)
InitL ==
    /\ line \in Lines
    /\ lex \in Lexicons
    /\ res = Raised("none")
    /\ pcL = "call"
    /\ IdleM
    /\ IdleX
    /\ IdleK

ProcessLine ==
    /\ pcL = "call"
    /\ res' = process_line(line, lex)
    /\ pcL' = IF res'.exc = "none" THEN "returned" ELSE "raised"
    /\ UNCHANGED <<line, lex, varsM, varsX, varsK>>

NextL == ProcessLine

SpecL == InitL /\ [][NextL]_vars

(***************************************************************************)
(* create_design_matrix, write_design_matrix, generate_design_matrix.      *)
(***************************************************************************)
FileLines ==
    {Record(<<"4">>, <<"a", " ", "b", "s">>),
     Record(<<"0">>, <<"B", " ", "b", " ", "c">>),
     Record(<<"2">>, <<"a">>),
     Record(<<"3">>, <<"a">>),
     Record(<<"x">>, <<"a">>),
     Row(<<<<"4">>, <<"a">>>>)}

SeqsUpTo(S, n) == UNION {[1..k -> S] : k \in 0..n}

MLexicons == {<<>>, <<A, B>>}

\* what the output file holds before the call ('a' appends)
OldOutputs == {<<>>, <<9>>}

\* except ValueError
Handled(e) == e = "ValueError"

\* a faulty variant: the row is the features alone
hstackFeaturesOnly(features, label) == features

\* hstack((features, label))
hstack(features, label) == features \o label

\* reallocate_ndarray: the column of per-sample arrays stacked into one array
reallocate_ndarray(column) == [k \in 1..Len(column) |-> column[k]]

Perms(n) == {f \in [1..n -> 1..n] : \A i, j \in 1..n : f[i] = f[j] => i = j}

InitM ==
    /\ IdleL
    /\ IdleX
    /\ IdleK
    /\ variant \in {"create", "write", "generate"}
    /\ mfile \in {File(ls) : ls \in SeqsUpTo(FileLines, MaxFileLines)} \cup {NoFile}
    /\ mlex \in MLexicons
    /\ max_lines \in 1..MaxLimit
    /\ pc = "start"
    /\ pos = 1
    /\ design_matrix = <<>>
    /\ outfile0 \in (IF variant = "write" THEN OldOutputs ELSE {<<>>})
    /\ outzipfile = outfile0
    /\ n_lines_written = 0
    /\ yielded = <<>>
    /\ result = <<>>
    /\ exc = "none"
    /\ accepted = <<>>

\* open(samples_filename); contents = file.readlines()
\* (write_design_matrix has opened the output for appending just before)
open_samples ==
    /\ pc = "start"
    /\ IF ~mfile.exists
       THEN pc' = "raised" /\ exc' = "FileNotFoundError"
       ELSE pc' = "loop" /\ exc' = exc
    /\ UNCHANGED <<variant, mfile, mlex, max_lines, pos, design_matrix, outfile0,
                   outzipfile, n_lines_written, yielded, result, accepted, varsL, varsX, varsK>>

\* one pass of the for loop of create_design_matrix
create_step ==
    /\ variant = "create"
    /\ pc = "loop"
    /\ IF pos > Len(mfile.lines)
       THEN /\ pc' = "shuffle"
            /\ UNCHANGED <<pos, design_matrix, accepted, exc>>
       ELSE LET r == process_line(mfile.lines[pos], mlex)
            IN  IF r.exc # "none"
                THEN IF Handled(r.exc)
                     THEN /\ pos' = pos + 1
                          /\ UNCHANGED <<pc, design_matrix, accepted, exc>>
                     ELSE /\ pc' = "raised"
                          /\ exc' = r.exc
                          /\ UNCHANGED <<pos, design_matrix, accepted>>
                ELSE /\ design_matrix' = Append(design_matrix, <<r.features, r.label>>)
                     /\ accepted' = Append(accepted, pos)
                     /\ exc' = exc
                     /\ IF Len(design_matrix') = max_lines
                        THEN pc' = "shuffle" /\ pos' = pos
                        ELSE pc' = pc /\ pos' = pos + 1
    /\ UNCHANGED <<variant, mfile, mlex, max_lines, outfile0, outzipfile,
                   n_lines_written, yielded, result, varsL, varsX, varsK>>

\* shuffle(design_matrix); array(design_matrix); the two columns
create_finish ==
    /\ variant = "create"
    /\ pc = "shuffle"
    /\ \E f \in Perms(Len(design_matrix)) :
         LET shuffled == [k \in 1..Len(design_matrix) |-> design_matrix[f[k]]]
         IN  /\ design_matrix' = shuffled
             /\ accepted' = [k \in 1..Len(accepted) |-> accepted[f[k]]]
             /\ IF Len(shuffled) = 0
                THEN \* array([]) has one axis: design_matrix[:, 0] raises
                     /\ pc' = "raised"
                     /\ exc' = "IndexError"
                     /\ result' = result
                ELSE /\ pc' = "done"
                     /\ exc' = exc
                     /\ result' =
                          <<reallocate_ndarray([k \in 1..Len(shuffled) |-> shuffled[k][1]]),
                            reallocate_ndarray([k \in 1..Len(shuffled) |-> shuffled[k][2]])>>
    /\ UNCHANGED <<variant, mfile, mlex, max_lines, pos, outfile0, outzipfile,
                   n_lines_written, yielded, varsL, varsX, varsK>>

\* one pass of the for loop of write_design_matrix
write_step ==
    /\ variant = "write"
    /\ pc = "loop"
    /\ IF pos > Len(mfile.lines)
       THEN /\ pc' = "done"
            /\ UNCHANGED <<pos, outzipfile, n_lines_written, accepted, exc>>
       ELSE LET r == process_line(mfile.lines[pos], mlex)
            IN  IF r.exc # "none"
                THEN IF Handled(r.exc)
                     THEN /\ pos' = pos + 1
                          /\ UNCHANGED <<pc, outzipfile, n_lines_written, accepted, exc>>
                     ELSE /\ pc' = "raised"
                          /\ exc' = r.exc
                          /\ UNCHANGED <<pos, outzipfile, n_lines_written, accepted>>
                ELSE LET sample_row == hstack(r.features, r.label)
                     IN  IF n_lines_written = max_lines
                         THEN /\ pc' = "done"
                              /\ UNCHANGED <<pos, outzipfile, n_lines_written,
                                             accepted, exc>>
                         ELSE /\ outzipfile' = outzipfile \o sample_row
                              /\ n_lines_written' = n_lines_written + 1
                              /\ accepted' = Append(accepted, pos)
                              /\ pos' = pos + 1
                              /\ UNCHANGED <<pc, exc>>
    /\ UNCHANGED <<variant, mfile, mlex, max_lines, design_matrix, outfile0,
                   yielded, result, varsL, varsX, varsK>>

\* one pass of the for loop of generate_design_matrix, up to its yield
generate_step ==
    /\ variant = "generate"
    /\ pc = "loop"
    /\ IF pos > Len(mfile.lines) \/ n_lines_written = max_lines
       THEN /\ pc' = "done"
            /\ UNCHANGED <<pos, yielded, n_lines_written, accepted, exc>>
       ELSE LET r == process_line(mfile.lines[pos], mlex)
            IN  IF r.exc # "none"
                THEN IF Handled(r.exc)
                     THEN /\ pos' = pos + 1
                          /\ UNCHANGED <<pc, yielded, n_lines_written, accepted, exc>>
                     ELSE /\ pc' = "raised"
                          /\ exc' = r.exc
                          /\ UNCHANGED <<pos, yielded, n_lines_written, accepted>>
                ELSE /\ n_lines_written' = n_lines_written + 1
                     /\ yielded' = Append(yielded, <<r.features, r.label>>)
                     /\ accepted' = Append(accepted, pos)
                     /\ pos' = pos + 1
                     /\ UNCHANGED <<pc, exc>>
    /\ UNCHANGED <<variant, mfile, mlex, max_lines, design_matrix, outfile0,
                   outzipfile, result, varsL, varsX, varsK>>

NextM == open_samples \/ create_step \/ create_finish \/ write_step \/ generate_step

SpecM == InitM /\ [][NextM]_vars

(***************************************************************************)
(* load_or_create_lexicon and the lexicon cache file.                      *)
(***************************************************************************)
Filenames == {"train1", "train2"}

TrainFiles ==
    {<<Record(<<"4">>, <<"a", " ", "b", "s">>), Record(<<"0">>, <<"B", " ", "c">>)>>,
     <<Record(<<"0">>, <<"a", "s">>)>>}

RECURSIVE Dedup(_, _)
Dedup(words, seen) ==
    IF words = <<>> THEN seen
    ELSE Dedup(Tail(words), IF In(Head(words), seen) THEN seen ELSE Append(seen, Head(words)))

RECURSIVE AllWords(_)
AllWords(ls) ==
    IF ls = <<>> THEN <<>>
    ELSE LET f == split(Slice1m1(Head(ls)), SEP)
             sample == IF Len(f) = Len(column_names_) THEN process_sample(f[6]) ELSE <<>>
         IN  [k \in 1..Len(sample) |-> lemmatize(sample[k])] \o AllWords(Tail(ls))

\* create_lexicon([train_filepath]): the number of lines read and the distinct
\* lemmatized words of the text column, in order of first appearance
create_lexicon(files) == <<Len(files[1]), Dedup(AllWords(files[1]), <<>>)>>

DigitChar(n) == CHOOSE c \in Digits : DigitVal(c) = n

RECURSIVE DumpWords(_)
DumpWords(lx) ==
    IF lx = <<>> THEN <<>>
    ELSE <<DigitChar(Len(Head(lx)))>> \o Head(lx) \o DumpWords(Tail(lx))

\* pickle.dump of a list of strings: the length of the list, then each string
\* behind its own length
pickle_dump(lx) == <<DigitChar(Len(lx))>> \o DumpWords(lx)

RECURSIVE LoadWords(_, _)
LoadWords(bytes, n) ==
    IF n = 0 THEN <<>>
    ELSE LET k == DigitVal(Head(bytes))
         IN  <<SubSeq(bytes, 2, k + 1)>> \o LoadWords(SubSeq(bytes, k + 2, Len(bytes)), n - 1)

\* pickle.load
pickle_load(bytes) == LoadWords(Tail(bytes), DigitVal(Head(bytes)))

NoCache == [exists |-> FALSE, bytes |-> <<>>]

\* a cache file left by an earlier run
CacheOf(lx) == [exists |-> TRUE, bytes |-> pickle_dump(lx)]

\* a faulty variant: the lexicon is rebuilt whether or not the cache file is there
try_loadAlwaysCreate(entry, trainfile) ==
    [lexicon |-> create_lexicon(<<trainfile>>)[2], created |-> TRUE]

\* try: load(file)  except FileNotFoundError: create_lexicon([train_filepath])
try_load(entry, trainfile) ==
    IF entry.exists
    THEN [lexicon |-> pickle_load(entry.bytes), created |-> FALSE]
    ELSE [lexicon |-> create_lexicon(<<trainfile>>)[2], created |-> TRUE]

\* a faulty variant: the lexicon is dumped only when it was loaded from the file
dump_lexiconOnlyIfLoaded(entry, lexicon) ==
    IF entry.exists THEN [exists |-> TRUE, bytes |-> pickle_dump(lexicon)] ELSE entry

\* with open(lexicon_filepath, "wb") as pickle_file: dump(lexicon, pickle_file)
dump_lexicon(entry, lexicon) == [exists |-> TRUE, bytes |-> pickle_dump(lexicon)]

Event(op, fn, lexicon, created, missing) ==
    [op |-> op, fn |-> fn, lexicon |-> lexicon, created |-> created, missing |-> missing]

InitX ==
    /\ IdleL
    /\ IdleM
    /\ IdleK
    /\ train \in [Filenames -> TrainFiles]
    /\ cache \in [Filenames -> {NoCache, CacheOf(<<A>>), CacheOf(<<B, A, C>>)}]
    /\ events = <<>>

load_or_create_lexicon ==
    /\ Len(events) < MaxEvents
    /\ \E train_filename \in Filenames :
         LET got == try_load(cache[train_filename], train[train_filename])
         IN  /\ cache' = [cache EXCEPT ![train_filename] = dump_lexicon(@, got.lexicon)]
             /\ events' = Append(events,
                    Event("call", train_filename, got.lexicon, got.created,
                          ~cache[train_filename].exists))
    /\ UNCHANGED <<train, varsL, varsM, varsK>>

\* something else removes a cache file between two calls
remove_cache ==
    /\ Len(events) < MaxEvents
    /\ \E fn \in Filenames :
         /\ cache[fn].exists
         /\ cache' = [cache EXCEPT ![fn] = NoCache]
         /\ events' = Append(events, Event("remove", fn, <<>>, FALSE, FALSE))
    /\ UNCHANGED <<train, varsL, varsM, varsK>>

NextX == load_or_create_lexicon \/ remove_cache

SpecX == InitX /\ [][NextX]_vars

(***************************************************************************)
(* testKerasFunctionalMinimal.run: array shapes.                           *)
(***************************************************************************)
\* keras.backend.expand_dims(x): a last axis of length 1
expand_dims(shape) == Append(shape, 1)

\* x[0].shape
SampleShape(shape) == Tail(shape)

\* preprocess: the (width, height, channels) it returns; x_train is expanded in
\* a local name only, and the unpacking needs exactly three values
preprocess(train_x) ==
    LET x == IF Len(SampleShape(train_x)) = 2 THEN expand_dims(train_x) ELSE train_x
    IN  [exc |-> IF Len(SampleShape(x)) = 3 THEN "none" ELSE "ValueError",
         shape |-> SampleShape(x)]

\* Input(shape=(img_width, img_height, n_channels))
image_input(img_width, img_height, n_channels) == <<img_width, img_height, n_channels>>

Channels == {0, 1, 3}

ImageShape(n, w, h, c) == IF c = 0 THEN <<n, w, h>> ELSE <<n, w, h, c>>

InitK ==
    /\ IdleL
    /\ IdleM
    /\ IdleX
    /\ pcK = "start"
    /\ x_train = <<>>
    /\ x_test = <<>>
    /\ input_shape = <<>>
    /\ fit_x = <<>>
    /\ evaluate_x = <<>>

\* (x_train, y_train), (x_test, y_test) = load_data()
load_data ==
    /\ pcK = "start"
    /\ \E w \in 1..MaxDim, h \in 1..MaxDim, c \in Channels,
          n_train \in 1..MaxSamples, n_test \in 1..MaxSamples :
         /\ x_train' = ImageShape(n_train, w, h, c)
         /\ x_test' = ImageShape(n_test, w, h, c)
    /\ pcK' = "loaded"
    /\ UNCHANGED <<input_shape, fit_x, evaluate_x, varsL, varsM, varsX>>

\* preprocess, image_input, conv_tower, Dense, Model, compile
build_model ==
    /\ pcK = "loaded"
    /\ LET p == preprocess(x_train)
       IN  IF p.exc # "none"
           THEN pcK' = "raised" /\ input_shape' = input_shape
           ELSE /\ input_shape' = image_input(p.shape[1], p.shape[2], p.shape[3])
                /\ pcK' = "compiled"
    /\ UNCHANGED <<x_train, x_test, fit_x, evaluate_x, varsL, varsM, varsX>>

\* model.fit(x_train, ...): Keras refuses an array whose per-sample shape is
\* not the input's
fit ==
    /\ pcK = "compiled"
    /\ fit_x' = x_train
    /\ pcK' = IF SampleShape(x_train) = input_shape THEN "fitted" ELSE "fit_raised"
    /\ UNCHANGED <<x_train, x_test, input_shape, evaluate_x, varsL, varsM, varsX>>

\* model.evaluate(x_test, ...)
evaluate ==
    /\ pcK = "fitted"
    /\ evaluate_x' = x_test
    /\ pcK' = IF SampleShape(x_test) = input_shape THEN "evaluated" ELSE "evaluate_raised"
    /\ UNCHANGED <<x_train, x_test, input_shape, fit_x, varsL, varsM, varsX>>

NextK == load_data \/ build_model \/ fit \/ evaluate

SpecK == InitK /\ [][NextK]_vars

(***************************************************************************)
(* What the claims speak about.                                            *)
(***************************************************************************)
Fields(ln) == split(Slice1m1(ln), SEP)
FieldCount(ln) == Len(Fields(ln))
LinePolarity(ln) == int(Fields(ln)[1])

\* the polarity field of a line reads 0 or 4
ExtremePolarity(f) == int(f[1]).exc = "none" /\ int(f[1]).v \in {NEGATIVE, POSITIVE}

InAccepted(i) == \E k \in 1..Len(accepted) : accepted[k] = i

Count(w, words) == Cardinality({k \in 1..Len(words) : words[k] = w})

RECURSIVE Sum(_)
Sum(f) == IF f = <<>> THEN 0 ELSE Head(f) + Sum(Tail(f))

\* the samples a variant has produced so far
Produced ==
    CASE variant = "create" -> Len(design_matrix)
      [] variant = "write" -> n_lines_written
      [] variant = "generate" -> Len(yielded)
      [] OTHER -> 0

SampleOf(ln) == <<process_line(ln, mlex).features, process_line(ln, mlex).label>>

Acceptable(ln) == process_line(ln, mlex).exc = "none"

RECURSIVE Flatten(_)
Flatten(rows) == IF rows = <<>> THEN <<>> ELSE Head(rows)[1] \o Head(rows)[2] \o Flatten(Tail(rows))

FirstN(s, n) == SubSeq(s, 1, IF Len(s) < n THEN Len(s) ELSE n)

\* the samples of the first max_lines accepted lines, in file order
Expected ==
    LET ok == SelectSeq(mfile.lines, Acceptable)
        first == FirstN(ok, max_lines)
    IN  [k \in 1..Len(first) |-> SampleOf(first[k])]

IsPermutationOf(s, t) ==
    /\ Len(s) = Len(t)
    /\ \E f \in Perms(Len(s)) : \A k \in 1..Len(s) : s[k] = t[f[k]]

(***************************************************************************)
(* C1: for every accepted line the label is [1,0] when the line's polarity *)
(* is 4 and [0,1] when it is 0.                                            *)
(***************************************************************************)
C1_LabelFollowsPolarity ==
    pcL = "returned" =>
        res.label = IF LinePolarity(line).v = POSITIVE THEN <<1, 0>> ELSE <<0, 1>>

(***************************************************************************)
(* C3: for every lexicon, the empty one and one with repeated tokens       *)
(* included, the feature vector of an accepted line has len(lexicon)       *)
(* entries.                                                                *)
(***************************************************************************)
C3_FeatureLength == pcL = "returned" => Len(res.features) = Len(lex)

C3_Witness ==
    /\ pcL = "returned"
    /\ ~Distinct(lex)
    /\ Len(res.features) = 3
    /\ Sum(res.features) > 0

(***************************************************************************)
(* C8: for a lexicon of distinct tokens, entry i of the feature vector is  *)
(* the number of occurrences of lexicon[i] among the lemmatized words, and *)
(* the entries sum to the number of lemmatized words that are in the       *)
(* lexicon.                                                                *)
(***************************************************************************)
C8_BagOfWords ==
    (pcL = "returned" /\ Distinct(lex)) =>
        /\ \A i \in 1..Len(lex) : res.features[i] = Count(lex[i], res.words)
        /\ Sum(res.features) =
             Cardinality({k \in 1..Len(res.words) : In(res.words[k], lex)})

C8_Witness ==
    /\ pcL = "returned"
    /\ Distinct(lex)
    /\ \E i \in 1..Len(lex) : res.features[i] = 2
    /\ \E k \in 1..Len(res.words) : ~In(res.words[k], lex)

(***************************************************************************)
(* C2: no sample of any of the three variants comes from a line whose      *)
(* polarity field is not 0 or 4; such a line raises ValueError in          *)
(* process_line, is skipped, and the loop goes on with the next line.      *)
(***************************************************************************)
C2_OnlyExtremePolarities ==
    /\ Produced = Len(accepted)
    /\ \A k \in 1..Len(accepted) : ExtremePolarity(Fields(mfile.lines[accepted[k]]))
    /\ (pc = "loop" /\ pos <= Len(mfile.lines)) =>
           LET f == Fields(mfile.lines[pos])
           IN  (Len(f) = 6 /\ ~ExtremePolarity(f)) =>
                   /\ process_line(mfile.lines[pos], mlex).exc = "ValueError"
                   /\ ~InAccepted(pos)
    /\ exc # "ValueError"

C2_Witness ==
    /\ pc = "done"
    /\ Len(mfile.lines) = 3
    /\ FieldCount(mfile.lines[1]) = 6 /\ LinePolarity(mfile.lines[1]).v = NEUTRAL
       /\ LinePolarity(mfile.lines[1]).exc = "none"
    /\ FieldCount(mfile.lines[2]) = 6 /\ LinePolarity(mfile.lines[2]).exc = "ValueError"
    /\ accepted = <<3>>
    /\ Produced = 1

(***************************************************************************)
(* C5 as stated: a line that does not split into exactly six fields ends   *)
(* the variant with a propagated exception; the loop never gets past it.   *)
(***************************************************************************)
C5_MalformedLinePropagates ==
    \A i \in 1..Len(mfile.lines) :
        (i < pos /\ FieldCount(mfile.lines[i]) # 6) => pc = "raised"

(***************************************************************************)
(* C5 as amended: only ValueError is handled.  A missing input file ends   *)
(* the variant with FileNotFoundError and nothing produced; a line that    *)
(* does not split into exactly six fields raises ValueError when the       *)
(* record is built, so it is skipped like a line of invalid polarity and   *)
(* no ValueError ever leaves the loop.                                     *)
(***************************************************************************)
C5_OnlyValueErrorHandled ==
    /\ (~mfile.exists /\ pc # "start") =>
           /\ pc = "raised"
           /\ exc = "FileNotFoundError"
           /\ Produced = 0
           /\ outzipfile = outfile0
    /\ \A k \in 1..Len(accepted) : FieldCount(mfile.lines[accepted[k]]) = 6
    /\ (pc = "loop" /\ pos <= Len(mfile.lines) /\ FieldCount(mfile.lines[pos]) # 6) =>
           /\ process_line(mfile.lines[pos], mlex).exc = "ValueError"
           /\ ~InAccepted(pos)
    /\ exc # "ValueError"

C5_Witness ==
    /\ pc = "done"
    /\ Len(mfile.lines) = 2
    /\ FieldCount(mfile.lines[1]) # 6
    /\ accepted = <<2>>
    /\ Produced = 1

(***************************************************************************)
(* C7: every row write_design_matrix writes is the len(lexicon) feature    *)
(* values of one accepted line followed by the two values of its label;    *)
(* a call adds (rows written) x (len(lexicon) + 2) values to the file.     *)
(***************************************************************************)
C7_RowLayout ==
    variant = "write" =>
        LET w == Len(mlex) + 2
            base == Len(outfile0)
        IN  /\ Len(outzipfile) = base + n_lines_written * w
            /\ SubSeq(outzipfile, 1, base) = outfile0
            /\ Len(accepted) = n_lines_written
            /\ \A k \in 1..n_lines_written :
                 LET r == process_line(mfile.lines[accepted[k]], mlex)
                     row == SubSeq(outzipfile, base + (k - 1) * w + 1, base + k * w)
                 IN  /\ r.exc = "none"
                     /\ Len(r.label) = 2
                     /\ SubSeq(row, 1, Len(mlex)) = r.features
                     /\ SubSeq(row, Len(mlex) + 1, w) = r.label

C7_Witness ==
    /\ variant = "write"
    /\ pc = "done"
    /\ n_lines_written = 2
    /\ Len(mlex) = 2
    /\ outfile0 # <<>>
    /\ Len(outzipfile) = Len(outfile0) + 8

(***************************************************************************)
(* C9: for the same file, lexicon and limit, generate_design_matrix yields *)
(* and write_design_matrix writes, in file order, the samples of the first *)
(* max_lines accepted lines, and create_design_matrix returns a            *)
(* permutation of that collection.                                         *)
(***************************************************************************)
C9_VariantsAgree ==
    (mfile.exists /\ pc \in {"done", "raised"}) =>
        /\ pc = "done"
        /\ Produced <= max_lines
        /\ variant = "generate" => yielded = Expected
        /\ variant = "write" => outzipfile = outfile0 \o Flatten(Expected)
        /\ variant = "create" =>
             /\ Len(result[1]) = Len(result[2])
             /\ IsPermutationOf([k \in 1..Len(result[1]) |-> <<result[1][k], result[2][k]>>],
                                Expected)

(***************************************************************************)
(* C4: once a call of load_or_create_lexicon for a training file has       *)
(* returned, a later call for the same file, the cache file untouched by   *)
(* anything else in between, returns an equal lexicon and does not call    *)
(* create_lexicon.                                                         *)
(***************************************************************************)
Untouched(fn, i, j) ==
    \A k \in (i + 1)..(j - 1) : ~(events[k].op = "remove" /\ events[k].fn = fn)

C4_SecondCallReadsCache ==
    \A i, j \in 1..Len(events) :
        ( /\ i < j
          /\ events[i].op = "call"
          /\ events[j].op = "call"
          /\ events[i].fn = events[j].fn
          /\ Untouched(events[i].fn, i, j) ) =>
            /\ events[j].lexicon = events[i].lexicon
            /\ ~events[j].created

C4_Witness ==
    /\ Len(events) >= 2
    /\ events[1].op = "call" /\ events[1].created /\ Len(events[1].lexicon) >= 3
    /\ events[2].op = "call" /\ events[2].fn = events[1].fn
    /\ events[2].lexicon = events[1].lexicon

(***************************************************************************)
(* C6: when the cache file is missing, load_or_create_lexicon does not     *)
(* fail: it returns the lexicon create_lexicon builds from the training    *)
(* file, and on return the cache file exists and holds that lexicon.       *)
(***************************************************************************)
C6_MissingCacheIsBuilt ==
    (events # <<>> /\ events[Len(events)].op = "call" /\ events[Len(events)].missing) =>
        LET e == events[Len(events)]
        IN  /\ e.created
            /\ e.lexicon = create_lexicon(<<train[e.fn]>>)[2]
            /\ cache[e.fn].exists
            /\ pickle_load(cache[e.fn].bytes) = e.lexicon

C6_Witness ==
    /\ Len(events) = 1
    /\ events[1].op = "call" /\ events[1].missing
    /\ Len(events[1].lexicon) >= 3
    /\ cache[events[1].fn].exists

(***************************************************************************)
(* C10: in run(), the per-sample shape of the arrays handed to model.fit   *)
(* and model.evaluate is the (width, height, channels) the model's input   *)
(* was declared with, also when the images are 2-D.                        *)
(***************************************************************************)
C10_ShapesMatchInput ==
    /\ pcK \in {"fitted", "fit_raised", "evaluated", "evaluate_raised"} =>
           SampleShape(fit_x) = input_shape
    /\ pcK \in {"evaluated", "evaluate_raised"} => SampleShape(evaluate_x) = input_shape

=============================================================================
